---- MODULE Spec2Model ----
(***************************************************************************)
(* FundBank (bank_app.py): the share-accounting engine recalculate_fund    *)
(* and the Streamlit session around it (login gate, add transaction,       *)
(* delete wallet, NAV edit/save, restore, audit log).                      *)
(*                                                                         *)
(* Numbers: the program computes in binary64 floats.  The model computes   *)
(* in exact rationals [n, d] in lowest terms, with d = 0 standing for NaN  *)
(* (a missing NAV is float(np.nan)).  Comparisons with NaN are false and   *)
(* arithmetic on NaN yields NaN, as in the program; rounding error of the  *)
(* float operations is not represented.                                    *)
(***************************************************************************)
EXTENDS Integers, Sequences, FiniteSets, TLC

\* ------------------------------------------------------------------------
\* Bounds of the model
\* ------------------------------------------------------------------------
\* rows of an input history of EngineSpec
MaxRows == 3

\* rows the add_tx form may bring the store to, and rows of the audit log, in Spec
MaxTx == 3

MaxAudit == 3

\* ------------------------------------------------------------------------
\* Float arithmetic (exact rationals plus NaN)
\* ------------------------------------------------------------------------
RECURSIVE GCD(_, _)
GCD(a, b) == IF b = 0 THEN a ELSE GCD(b, a % b)

Abs(i) == IF i < 0 THEN -i ELSE i

NaN == [n |-> 0, d |-> 0]

Norm(n, d) ==
    IF d = 0 THEN NaN
    ELSE LET g == GCD(Abs(n), d) IN [n |-> n \div g, d |-> d \div g]

R(i) == [n |-> i, d |-> 1]

Zero == R(0)

One == R(1)

IsNaN(x) == x.d = 0

Add(x, y) == IF IsNaN(x) \/ IsNaN(y) THEN NaN ELSE Norm(x.n * y.d + y.n * x.d, x.d * y.d)

Neg(x) == [n |-> -x.n, d |-> x.d]

Sub(x, y) == Add(x, Neg(y))

Mul(x, y) == IF IsNaN(x) \/ IsNaN(y) THEN NaN ELSE Norm(x.n * y.n, x.d * y.d)

\* x / y; every division of the program is guarded by "y > 0".
Div(x, y) ==
    IF IsNaN(x) \/ IsNaN(y) \/ y.n = 0 THEN NaN
    ELSE IF y.n > 0 THEN Norm(x.n * y.d, x.d * y.n)
    ELSE Norm(-(x.n * y.d), x.d * (-y.n))

\* x > y and x < y on floats: false when either side is NaN.
Gt(x, y) == ~IsNaN(x) /\ ~IsNaN(y) /\ x.n * y.d > y.n * x.d

Lt(x, y) == Gt(y, x)

Ge(x, y) == ~IsNaN(x) /\ ~IsNaN(y) /\ x.n * y.d >= y.n * x.d

Le(x, y) == Ge(y, x)

\* Python's min(a, b): b if b < a, else a.  max(a, b): b if b > a, else a.
PyMin(a, b) == IF Lt(b, a) THEN b ELSE a

PyMax(a, b) == IF Gt(b, a) THEN b ELSE a

\* ------------------------------------------------------------------------
\* Dictionaries (Python dict as a function with a growing domain)
\* ------------------------------------------------------------------------
EmptyDict == [k \in {} |-> Zero]

Get(dict, k, default) == IF k \in DOMAIN dict THEN dict[k] ELSE default

Put(dict, k, v) == [x \in (DOMAIN dict) \cup {k} |-> IF x = k THEN v ELSE dict[x]]

RECURSIVE SumOver(_, _)
SumOver(dict, keys) ==
    IF keys = {} THEN Zero
    ELSE LET k == CHOOSE x \in keys : TRUE
         IN Add(dict[k], SumOver(dict, keys \ {k}))

\* sum of the values of a dict
SumValues(dict) == SumOver(dict, DOMAIN dict)

\* ------------------------------------------------------------------------
\* Input universes
\* ------------------------------------------------------------------------
\* Calendar days, ordered like their ISO strings.
Dates == {1, 2}

\* Wallet identifiers; "" is what user.strip() leaves of a blank entry.
Users == {"alice", "bob", ""}

TxTypes == {"Deposit", "Withdrawal"}

\* Amounts of the input histories, and the amount the add_tx form submits
\* (min_value 0.01).
Amounts == {R(1), R(2)}

FormAmounts == {R(1)}

\* NAV values the NAV inputs can hold (min_value 0.0).
NavVals == {R(0), R(3)}

\* fee fractions: number_input in [0, 20] percent, divided by 100
DEFAULT_WITHDRAW_FEE == Norm(3, 100)

DEFAULT_PROFIT_FEE == Norm(2, 100)

\* values the two fee inputs are set to
WithdrawFeeInputs == {DEFAULT_WITHDRAW_FEE, Norm(20, 100)}

ProfitFeeInputs == {DEFAULT_PROFIT_FEE, Zero}

ADMIN_USER == "Admin"

ADMIN_PASS == "AdminPOEconomics"

Tx(d, u, t, a) == [Date |-> d, User |-> u, Type |-> t, Amount |-> a]

\* sparse NAV maps: a NAV for some of the dates
NavMaps == UNION {[D -> NavVals] : D \in SUBSET Dates}

\* ------------------------------------------------------------------------
\* recalculate_fund, as pure operators on the record e of its locals
\* ------------------------------------------------------------------------
\* pd.to_numeric(errors="coerce").fillna(0.0) on the Amount column
CoerceAmounts(tr) ==
    [i \in DOMAIN tr |-> [tr[i] EXCEPT !.Amount = IF IsNaN(@) THEN Zero ELSE @]]

RECURSIVE SortedSeq(_)
SortedSeq(S) ==
    IF S = {} THEN <<>>
    ELSE LET m == CHOOSE x \in S : \A y \in S : x <= y
         IN <<m>> \o SortedSeq(S \ {m})

TxDates(tr) == {tr[i].Date : i \in DOMAIN tr}

TxUsers(tr) == {tr[i].User : i \in DOMAIN tr}

AllDates(tr, nav_history) == SortedSeq((DOMAIN nav_history) \cup TxDates(tr))

\* float(nav_history.get(d_str, np.nan))
NavAt(nav_history, d) == Get(nav_history, d, NaN)

\* variant: the NAV itself as the price of an empty fund
PriceNoBootstrap(nav_val, total) == IF Gt(total, Zero) THEN Div(nav_val, total) ELSE nav_val

\* nav / total_shares if total_shares > 0 else 1.0
Price(nav_val, total) == IF Gt(total, Zero) THEN Div(nav_val, total) ELSE One

InitLocals(tr) ==
    [total_shares        |-> Zero,
     user_share_balances |-> [u \in {v \in TxUsers(tr) : v # ""} |-> Zero],
     share_ledger        |-> <<>>,
     nav_per_share       |-> EmptyDict,
     nav_per_share_today |-> One]

StartDay(e, nav_history, d) ==
    [e EXCEPT !.nav_per_share_today = Price(NavAt(nav_history, d), e.total_shares)]

\* variant: the price recomputed before every row
ExecPriceLive(e, nav_history, d) == Price(NavAt(nav_history, d), e.total_shares)

\* the price a row of the day is executed at
ExecPrice(e, nav_history, d) == e.nav_per_share_today

\* variant: 0 shares only for a price equal to 0
SharesForUnlessZero(amt, p) == IF ~IsNaN(p) /\ p.n = 0 THEN Zero ELSE Div(amt, p)

\* amt / nav_per_share_today if nav_per_share_today > 0 else 0
SharesFor(amt, p) == IF Gt(p, Zero) THEN Div(amt, p) ELSE Zero

\* variant: no cut to the balance
ClampNone(shares, balance) == shares

\* min(shares, user_share_balances.get(u, 0.0))
Clamp(shares, balance) == PyMin(shares, balance)

LedgerEntry(d, u, t, amt, shares, p) ==
    [Date |-> d, User |-> u, Type |-> t, Amount |-> amt, Shares |-> shares, NAVShare |-> p]

\* lines 106-109 and 119-122
ApplyDeposit(e, row, p) ==
    LET shares == SharesFor(row.Amount, p)
        u      == row.User
    IN [e EXCEPT
          !.total_shares = Add(@, shares),
          !.user_share_balances = Put(@, u, Add(Get(@, u, Zero), shares)),
          !.share_ledger = Append(@, LedgerEntry(row.Date, u, row.Type, row.Amount, shares, p))]

\* variant: a withdrawal that takes the requested shares from the total
ApplyWithdrawalTotalUnclamped(e, row, p) ==
    LET u      == row.User
        shares == Clamp(SharesFor(row.Amount, p), Get(e.user_share_balances, u, Zero))
        amt    == Neg(Mul(shares, p))
    IN [e EXCEPT
          !.total_shares = Sub(@, SharesFor(row.Amount, p)),
          !.user_share_balances = Put(@, u, Sub(Get(@, u, Zero), shares)),
          !.share_ledger = Append(@, LedgerEntry(row.Date, u, row.Type, amt, shares, p))]

\* variant: a withdrawal that records the requested amount
ApplyWithdrawalRequestedAmount(e, row, p) ==
    LET u      == row.User
        shares == Clamp(SharesFor(row.Amount, p), Get(e.user_share_balances, u, Zero))
        amt    == Neg(row.Amount)
    IN [e EXCEPT
          !.total_shares = Sub(@, shares),
          !.user_share_balances = Put(@, u, Sub(Get(@, u, Zero), shares)),
          !.share_ledger = Append(@, LedgerEntry(row.Date, u, row.Type, amt, shares, p))]

\* variant: a withdrawal recorded without the sign change of line 116
ApplyWithdrawalUnsigned(e, row, p) ==
    LET u      == row.User
        shares == Clamp(SharesFor(row.Amount, p), Get(e.user_share_balances, u, Zero))
        amt    == Mul(shares, p)
    IN [e EXCEPT
          !.total_shares = Sub(@, shares),
          !.user_share_balances = Put(@, u, Sub(Get(@, u, Zero), shares)),
          !.share_ledger = Append(@, LedgerEntry(row.Date, u, row.Type, amt, shares, p))]

\* lines 110-116 and 119-122
ApplyWithdrawal(e, row, p) ==
    LET u      == row.User
        shares == Clamp(SharesFor(row.Amount, p), Get(e.user_share_balances, u, Zero))
        amt    == Neg(Mul(shares, p))
    IN [e EXCEPT
          !.total_shares = Sub(@, shares),
          !.user_share_balances = Put(@, u, Sub(Get(@, u, Zero), shares)),
          !.share_ledger = Append(@, LedgerEntry(row.Date, u, row.Type, amt, shares, p))]

\* body of the loop over txs_today
ApplyRow(e, row, nav_history) ==
    LET p == ExecPrice(e, nav_history, row.Date)
    IN CASE row.Type = "Deposit"    -> ApplyDeposit(e, row, p)
         [] row.Type = "Withdrawal" -> ApplyWithdrawal(e, row, p)
         [] OTHER                   -> e

\* variant: the execution price of the day recorded as its end-of-day price
EndDayAtExecPrice(e, nav_history, d) ==
    [e EXCEPT !.nav_per_share = Put(@, d, e.nav_per_share_today)]

\* line 123
EndDay(e, nav_history, d) ==
    [e EXCEPT !.nav_per_share = Put(@, d, Price(NavAt(nav_history, d), e.total_shares))]

\* index of the next row dated d after position `after`, 0 when there is none
NextRow(tr, d, after) ==
    LET later == {i \in DOMAIN tr : i > after /\ tr[i].Date = d}
    IN IF later = {} THEN 0 ELSE CHOOSE i \in later : \A j \in later : i <= j

RECURSIVE RunRows(_, _, _, _, _)
RunRows(e, tr, nav_history, d, after) ==
    LET i == NextRow(tr, d, after)
    IN IF i = 0 THEN e
       ELSE RunRows(ApplyRow(e, tr[i], nav_history), tr, nav_history, d, i)

RunDay(e, tr, nav_history, d) ==
    EndDay(RunRows(StartDay(e, nav_history, d), tr, nav_history, d, 0), nav_history, d)

RECURSIVE RunDays(_, _, _, _, _)
RunDays(e, tr, nav_history, all_dates, k) ==
    IF k > Len(all_dates) THEN e
    ELSE RunDays(RunDay(e, tr, nav_history, all_dates[k]), tr, nav_history, all_dates, k + 1)

\* sum of the Amount column over the rows of type t and user u (groupby + sum)
RECURSIVE SumAmounts(_, _, _, _)
SumAmounts(tr, t, u, k) ==
    IF k > Len(tr) THEN Zero
    ELSE LET rest == SumAmounts(tr, t, u, k + 1)
         IN IF tr[k].Type = t /\ tr[k].User = u THEN Add(tr[k].Amount, rest) ELSE rest

GroupUsers(tr, t) == {tr[i].User : i \in {j \in DOMAIN tr : tr[j].Type = t}}

\* transactions[Type == "Deposit"].groupby("User")["Amount"].sum().to_dict()
DepositSum(tr) == [u \in GroupUsers(tr, "Deposit") |-> SumAmounts(tr, "Deposit", u, 1)]

\* {u: -v for u, v in withdrawal_series.to_dict().items()}
WithdrawalSum(tr) == [u \in GroupUsers(tr, "Withdrawal") |-> Neg(SumAmounts(tr, "Withdrawal", u, 1))]

\* nav_per_share.get(all_dates[-1], 1.0)
CurrentNavShare(e, dates) == Get(e.nav_per_share, dates[Len(dates)], One)

\* user_value = {u: user_shares[u] * current_nav_share for u in user_shares}
UserValue(e, dates) ==
    LET current_nav_share == CurrentNavShare(e, dates)
    IN [u \in DOMAIN e.user_share_balances |-> Mul(e.user_share_balances[u], current_nav_share)]

\* profit = {u: user_value[u] - deposit_sum.get(u, 0.0) + withdrawal_sum.get(u, 0.0) ...}
Profit(uvalue, tr) ==
    LET deposit_sum    == DepositSum(tr)
        withdrawal_sum == WithdrawalSum(tr)
    IN [u \in DOMAIN uvalue |->
          Add(Sub(uvalue[u], Get(deposit_sum, u, Zero)), Get(withdrawal_sum, u, Zero))]

\* variant: the fee rate applied to a loss as well
ProfitFeeUnclamped(p, fee) == Mul(p, fee)

\* max(profit[u], 0) * profit_fee
ProfitFee(p, fee) == Mul(PyMax(p, Zero), fee)

FeeDetails(uvalue, prof, wfee, pfee) ==
    [u \in DOMAIN uvalue |->
        [withdrawal_fee |-> Mul(uvalue[u], wfee), profit_fee |-> ProfitFee(prof[u], pfee)]]

\* after_fees[u] = gross - withdrawal_fee_amt - profit_fee_amt
AfterFees(uvalue, fees) ==
    [u \in DOMAIN uvalue |-> Sub(Sub(uvalue[u], fees[u].withdrawal_fee), fees[u].profit_fee)]

\* the seven values recalculate_fund returns
EmptyOutputs ==
    [nav_per_share |-> EmptyDict, user_shares |-> EmptyDict, user_value |-> EmptyDict,
     after_fees |-> EmptyDict, profit |-> EmptyDict, ledger_df |-> <<>>,
     fee_details |-> EmptyDict]

\* lines 124-140, from the locals e left by the loop
Outputs(e, tr, dates, wfee, pfee) ==
    LET uvalue == UserValue(e, dates)
        prof   == Profit(uvalue, tr)
        fees   == FeeDetails(uvalue, prof, wfee, pfee)
    IN [nav_per_share |-> e.nav_per_share,
        user_shares   |-> e.user_share_balances,
        user_value    |-> uvalue,
        after_fees    |-> AfterFees(uvalue, fees),
        profit        |-> prof,
        ledger_df     |-> e.share_ledger,
        fee_details   |-> fees]

\* the locals of recalculate_fund when its loop over all_dates has ended
FinalLocals(tr0, nav_history) ==
    LET tr == CoerceAmounts(tr0)
    IN RunDays(InitLocals(tr), tr, nav_history, AllDates(tr, nav_history), 1)

\* variant: the aggregates of lines 127-128 taken from the Amount column as it was passed in
ReturnOfRaw(e, tr0, nav_history, wfee, pfee) ==
    LET dates == AllDates(tr0, nav_history)
    IN IF dates = <<>> THEN EmptyOutputs ELSE Outputs(e, tr0, dates, wfee, pfee)

\* lines 91-92 and 124-140: what is returned once the loop has left the locals e
ReturnOf(e, tr0, nav_history, wfee, pfee) ==
    LET tr    == CoerceAmounts(tr0)
        dates == AllDates(tr, nav_history)
    IN IF dates = <<>> THEN EmptyOutputs ELSE Outputs(e, tr, dates, wfee, pfee)

\* recalculate_fund(transactions, nav_history, withdraw_fee, profit_fee)
RecalculateFund(tr0, nav_history, wfee, pfee) ==
    ReturnOf(FinalLocals(tr0, nav_history), tr0, nav_history, wfee, pfee)

\* ------------------------------------------------------------------------
\* State
\* ------------------------------------------------------------------------
VARIABLES
    \* st.session_state
    transactions, nav, is_admin, withdraw_fee, profit_fee,
    \* data/transactions.csv, data/nav.csv, data/audit.csv
    tx_file, nav_file, audit_file,
    \* the file held by the "Restore Transactions CSV" uploader ({} when none),
    \* and the place of the script: "idle" between runs, "controls" after the
    \* recalculation at the top of a run, "rerun" after st.rerun(), "restore"
    \* at line 366 with a file in the uploader
    uploaded, run,
    \* the st.error / st.success text the last run left on the page ("" when none)
    message,
    \* st.session_state of a second browser session on the same data directory
    other,
    \* recalculate_fund: position and locals
    pc, d_i, row_i,
    total_shares, user_share_balances, share_ledger, nav_per_share, nav_per_share_today,
    \* recalculate_fund: returned values
    user_shares, user_value, after_fees, profit, fee_details

session == <<transactions, nav, is_admin, withdraw_fee, profit_fee>>

files == <<tx_file, nav_file, audit_file>>

locals == <<total_shares, user_share_balances, share_ledger, nav_per_share, nav_per_share_today>>

returned == <<user_shares, user_value, after_fees, profit, fee_details>>

widgets == <<uploaded, run, message>>

vars == <<session, files, widgets, other, pc, d_i, row_i, locals, returned>>

Locals ==
    [total_shares        |-> total_shares,
     user_share_balances |-> user_share_balances,
     share_ledger        |-> share_ledger,
     nav_per_share       |-> nav_per_share,
     nav_per_share_today |-> nav_per_share_today]

SetLocals(e) ==
    /\ total_shares' = e.total_shares
    /\ user_share_balances' = e.user_share_balances
    /\ share_ledger' = e.share_ledger
    /\ nav_per_share' = e.nav_per_share
    /\ nav_per_share_today' = e.nav_per_share_today

SetReturned(o) ==
    /\ user_shares' = o.user_shares
    /\ user_value' = o.user_value
    /\ after_fees' = o.after_fees
    /\ profit' = o.profit
    /\ fee_details' = o.fee_details

all_dates == AllDates(transactions, nav)

\* a browser session that has not run the script yet
NoSession == [started |-> FALSE, transactions |-> <<>>, is_admin |-> FALSE]

\* ------------------------------------------------------------------------
\* recalculate_fund step by step, on arbitrary inputs (specification EngineSpec)
\* ------------------------------------------------------------------------
BoundedSeqs(S, n) == UNION {[1..k -> S] : k \in 0..n}

\* the wallets of the input histories
InputUsers == {"alice", "bob"}

InputTxs == {Tx(d, u, t, a) : d \in Dates, u \in InputUsers, t \in TxTypes, a \in Amounts}

\* (withdraw_fee, profit_fee) pairs: the defaults, the maximum and the minimum
InputFees ==
    {<<DEFAULT_WITHDRAW_FEE, DEFAULT_PROFIT_FEE>>, <<Norm(20, 100), Norm(20, 100)>>, <<Zero, Zero>>}

EngineInit ==
    /\ transactions \in BoundedSeqs(InputTxs, MaxRows)
    /\ nav \in NavMaps
    /\ \E f \in InputFees : withdraw_fee = f[1] /\ profit_fee = f[2]
    /\ is_admin = FALSE
    /\ tx_file = transactions
    /\ nav_file = nav
    /\ audit_file = <<>>
    /\ uploaded = {}
    /\ run = "idle"
    /\ message = ""
    /\ other = NoSession
    /\ pc = "call"
    /\ d_i = 0
    /\ row_i = 0
    /\ total_shares = Zero
    /\ user_share_balances = EmptyDict
    /\ share_ledger = <<>>
    /\ nav_per_share = EmptyDict
    /\ nav_per_share_today = One
    /\ user_shares = EmptyDict
    /\ user_value = EmptyDict
    /\ after_fees = EmptyDict
    /\ profit = EmptyDict
    /\ fee_details = EmptyDict

\* lines 87-96: coercion, all_dates, early return or initial locals
Enter ==
    /\ pc = "call"
    /\ transactions' = CoerceAmounts(transactions)
    /\ UNCHANGED <<nav, is_admin, withdraw_fee, profit_fee, files, widgets, row_i>>
    /\ IF AllDates(CoerceAmounts(transactions), nav) = <<>>
       THEN /\ pc' = "done"
            /\ d_i' = 0
            /\ UNCHANGED locals
            /\ SetReturned(EmptyOutputs)
       ELSE /\ pc' = "day"
            /\ d_i' = 1
            /\ SetLocals(InitLocals(CoerceAmounts(transactions)))
            /\ UNCHANGED returned
    /\ UNCHANGED other

\* lines 97-101: head of the loop over all_dates
BeginDay ==
    /\ pc = "day"
    /\ \E e \in {StartDay(Locals, nav, all_dates[d_i])} : SetLocals(e)
    /\ row_i' = 0
    /\ pc' = "rows"
    /\ UNCHANGED <<session, files, widgets, d_i, returned>>
    /\ UNCHANGED other

\* lines 102-122: one row of txs_today
Row ==
    /\ pc = "rows"
    /\ NextRow(transactions, all_dates[d_i], row_i) # 0
    /\ LET i == NextRow(transactions, all_dates[d_i], row_i)
       IN /\ \E e \in {ApplyRow(Locals, transactions[i], nav)} : SetLocals(e)
          /\ row_i' = i
    /\ UNCHANGED <<session, files, widgets, pc, d_i, returned>>
    /\ UNCHANGED other

\* line 123: end-of-day price, next date
CloseDay ==
    /\ pc = "rows"
    /\ NextRow(transactions, all_dates[d_i], row_i) = 0
    /\ \E e \in {EndDay(Locals, nav, all_dates[d_i])} : SetLocals(e)
    /\ d_i' = d_i + 1
    /\ pc' = IF d_i + 1 > Len(all_dates) THEN "value" ELSE "day"
    /\ UNCHANGED <<session, files, widgets, row_i, returned>>
    /\ UNCHANGED other

\* lines 124-140: valuation, profit, fees, return
Return ==
    /\ pc = "value"
    /\ \E o \in {ReturnOf(Locals, transactions, nav, withdraw_fee, profit_fee)} : SetReturned(o)
    /\ pc' = "done"
    /\ UNCHANGED <<session, files, widgets, d_i, row_i, locals>>
    /\ UNCHANGED other

EngineNext == Enter \/ BeginDay \/ Row \/ CloseDay \/ Return

EngineSpec == EngineInit /\ [][EngineNext]_vars

\* ------------------------------------------------------------------------
\* The Streamlit session (specification Spec).  Every interaction starts a
\* script run: the recalculation at the top (Recalculate), then the handler
\* of the widget that was used, then, for a run that reaches the end of the
\* script with a file in the uploader, the restore block (RestoreUpload).
\* A handler that ends in st.rerun() is followed by the run it starts.
\* ------------------------------------------------------------------------
\* a missing value of the User column (pandas NaN)
NA == "<NA>"

\* save_csv(df, f): the rows written to the file; a missing User is written
\* as the empty field
SaveCsv(df) == [i \in DOMAIN df |-> [df[i] EXCEPT !.User = IF @ = NA THEN "" ELSE @]]

\* load_csv(f, columns) on a file written by save_csv: pd.read_csv reads the
\* empty User field as missing
LoadCsv(file) == [i \in DOMAIN file |-> [file[i] EXCEPT !.User = IF @ = "" THEN NA ELSE @]]

\* variant: the new row written without the rows loaded from the file
AppendAuditOverwrite(audit, action, details, admin) ==
    <<[Action |-> action, Details |-> details, Admin |-> admin]>>

\* append_audit(action, details, admin); the Timestamp column (wall clock) is left out
AppendAudit(audit, action, details, admin) ==
    Append(audit, [Action |-> action, Details |-> details, Admin |-> admin])

\* what can be typed into the login form
LoginNames == {ADMIN_USER, "guest"}

LoginPasswords == {ADMIN_PASS, "letmein"}

\* what the admin can type into "User (Wallet)" and into the delete
\* confirmation; " " is whitespace only
UserTexts == {"alice", "bob", " ", ""}

\* str.strip() on the texts above
Strip(text) == IF text = " " THEN "" ELSE text

\* files the admin may put into the uploader: pd.read_csv(uploaded), with an
\* unparsable Amount read as NaN
UploadFiles ==
    {<<Tx(1, "alice", "Deposit", R(1)), Tx(1, "bob", "Deposit", R(1)),
       Tx(2, "alice", "Deposit", R(1))>>,
     <<Tx(1, "bob", "Deposit", NaN), Tx(1, "alice", "Transfer", R(2))>>}

\* lines 51-61 on an empty data directory
Init ==
    /\ transactions = <<>>
    /\ nav = EmptyDict
    /\ is_admin = FALSE
    /\ withdraw_fee = DEFAULT_WITHDRAW_FEE
    /\ profit_fee = DEFAULT_PROFIT_FEE
    /\ tx_file = <<>>
    /\ nav_file = EmptyDict
    /\ audit_file = <<>>
    /\ uploaded = {}
    /\ run = "idle"
    /\ message = ""
    /\ other = NoSession
    /\ pc = "done"
    /\ d_i = 0
    /\ row_i = 0
    /\ total_shares = Zero
    /\ user_share_balances = EmptyDict
    /\ share_ledger = <<>>
    /\ nav_per_share = EmptyDict
    /\ nav_per_share_today = One
    /\ user_shares = EmptyDict
    /\ user_value = EmptyDict
    /\ after_fees = EmptyDict
    /\ profit = EmptyDict
    /\ fee_details = EmptyDict

engine == <<pc, d_i, row_i, locals, returned>>

\* the audit log has room for k more rows
AuditRoom(k) == Len(audit_file) + k <= MaxAudit

\* variant: the admin controls rendered for every session
AdminGateOpen == TRUE

\* lines 221-224: the controls below st.stop() are reached only by an admin session
AdminGate == is_admin

\* where a run goes after the admin controls: the uploader at line 365
EndOfRun(admin, up) == IF admin /\ up # {} THEN "restore" ELSE "idle"

\* the handlers after which the run reaches the end of the script need room
\* for the RestoreTx row when the uploader holds a file
TailRoom(k) == AuditRoom(IF uploaded = {} THEN k ELSE k + 1)

\* lines 150-153: recalculate_fund at the top of a script run, on the session
\* state; the run after st.rerun() has no widget to handle and goes on to the
\* end of the script (a session that is not admin stops at line 224, and the
\* uploader it did not render is dropped)
Recalculate ==
    /\ run \in {"idle", "rerun"}
    /\ transactions' = CoerceAmounts(transactions)
    /\ \E e \in {FinalLocals(transactions, nav)} :
          /\ SetLocals(e)
          /\ \E o \in {ReturnOf(e, transactions, nav, withdraw_fee, profit_fee)} : SetReturned(o)
    /\ pc' = "done"
    /\ d_i' = 0
    /\ row_i' = 0
    /\ run' = IF run = "idle" THEN "controls" ELSE EndOfRun(is_admin, uploaded)
    /\ uploaded' = IF is_admin THEN uploaded ELSE {}
    /\ message' = ""
    /\ UNCHANGED <<nav, is_admin, withdraw_fee, profit_fee, files>>
    /\ UNCHANGED other

\* a run with no handler to execute (search box, chart selection, reload)
View ==
    /\ run = "controls"
    /\ TailRoom(0)
    /\ run' = EndOfRun(is_admin, uploaded)
    /\ UNCHANGED <<session, files, uploaded, engine, message>>
    /\ UNCHANGED other

\* variant: one matching credential suffices
CredentialsOkEither(user, pw) == user = ADMIN_USER \/ pw = ADMIN_PASS

\* lines 70-71
CredentialsOk(user, pw) == user = ADMIN_USER /\ pw = ADMIN_PASS

\* lines 70-75: login submit, credentials accepted
LoginOk(user, pw) ==
    /\ run = "controls"
    /\ ~AdminGate
    /\ CredentialsOk(user, pw)
    /\ AuditRoom(1)
    /\ is_admin' = TRUE
    /\ audit_file' = AppendAudit(audit_file, "AdminLogin", "Logged in", user)
    /\ run' = "rerun"
    /\ UNCHANGED <<transactions, nav, withdraw_fee, profit_fee, tx_file, nav_file, uploaded, engine, message>>
    /\ UNCHANGED other

\* lines 76-77 and 224: login submit, credentials refused
LoginFail(user, pw) ==
    /\ run = "controls"
    /\ ~AdminGate
    /\ ~CredentialsOk(user, pw)
    /\ run' = "idle"
    /\ UNCHANGED <<session, files, uploaded, engine>>
    /\ message' = "Wrong username or password."
    /\ UNCHANGED other

\* lines 64-77
LoginSubmit(user, pw) == LoginOk(user, pw) \/ LoginFail(user, pw)

\* lines 79-83, 329-330
AdminLogout ==
    /\ run = "controls"
    /\ AdminGate
    /\ AuditRoom(1)
    /\ is_admin' = FALSE
    /\ audit_file' = AppendAudit(audit_file, "AdminLogout", "Logged out", ADMIN_USER)
    /\ run' = "rerun"
    /\ UNCHANGED <<transactions, nav, withdraw_fee, profit_fee, tx_file, nav_file, uploaded, engine, message>>
    /\ UNCHANGED other

\* lines 234-238
SetWithdrawFee(v) ==
    /\ run = "controls"
    /\ AdminGate
    /\ v # withdraw_fee
    /\ TailRoom(0)
    /\ withdraw_fee' = v
    /\ run' = EndOfRun(is_admin, uploaded)
    /\ UNCHANGED <<transactions, nav, is_admin, profit_fee, files, uploaded, engine, message>>
    /\ UNCHANGED other

\* lines 240-244
SetProfitFee(v) ==
    /\ run = "controls"
    /\ AdminGate
    /\ v # profit_fee
    /\ TailRoom(0)
    /\ profit_fee' = v
    /\ run' = EndOfRun(is_admin, uploaded)
    /\ UNCHANGED <<transactions, nav, is_admin, withdraw_fee, files, uploaded, engine, message>>
    /\ UNCHANGED other

\* line 255: "if submit and user"
UserGiven(user) == user # ""

\* lines 255-261: add_tx submit with a "User (Wallet)" text
AddTx(user, ttype, amt, tx_date) ==
    /\ run = "controls"
    /\ AdminGate
    /\ UserGiven(user)
    /\ Len(transactions) < MaxTx
    /\ TailRoom(1)
    /\ transactions' = Append(transactions, Tx(tx_date, Strip(user), ttype, amt))
    /\ tx_file' = SaveCsv(transactions')
    /\ audit_file' = AppendAudit(audit_file, "AddTx", <<ttype, amt, user, tx_date>>, ADMIN_USER)
    /\ run' = "rerun"
    /\ UNCHANGED <<nav, is_admin, withdraw_fee, profit_fee, nav_file, uploaded, engine, message>>
    /\ UNCHANGED other

\* line 255 with an empty "User (Wallet)" text: nothing is added
AddTxEmptyUser(user, ttype, amt, tx_date) ==
    /\ run = "controls"
    /\ AdminGate
    /\ ~UserGiven(user)
    /\ TailRoom(0)
    /\ run' = EndOfRun(is_admin, uploaded)
    /\ UNCHANGED <<session, files, uploaded, engine, message>>
    /\ UNCHANGED other

\* lines 248-261
AddTxSubmit(user, ttype, amt, tx_date) ==
    AddTx(user, ttype, amt, tx_date) \/ AddTxEmptyUser(user, ttype, amt, tx_date)

\* line 272: sorted(transactions["User"].dropna().unique()), as a set
ExistingUsers(tr) == TxUsers(tr)

\* line 286: delete_disabled = (confirm != del_user)
DeleteDisabled(confirm, del_user) == confirm # del_user

\* variant: the filter inverted
KeepOnlyUser(tr, del_user) == SelectSeq(tr, LAMBDA row : row.User = del_user)

\* line 291: transactions[transactions["User"] != del_user]
DropUser(tr, del_user) == SelectSeq(tr, LAMBDA row : row.User # del_user)

\* lines 289-299: "Delete Wallet" pressed, the confirmation typed exactly
DeleteWallet(del_user, confirm) ==
    /\ run = "controls"
    /\ AdminGate
    /\ del_user \in ExistingUsers(transactions)
    /\ ~DeleteDisabled(confirm, del_user)
    /\ TailRoom(1)
    /\ transactions' = DropUser(transactions, del_user)
    /\ tx_file' = SaveCsv(transactions')
    /\ audit_file' = AppendAudit(audit_file, "DeleteWallet",
                                 <<del_user, Len(transactions) - Len(transactions')>>, ADMIN_USER)
    /\ run' = "rerun"
    /\ UNCHANGED <<nav, is_admin, withdraw_fee, profit_fee, nav_file, uploaded, engine, message>>
    /\ UNCHANGED other

\* lines 286-289, 303-304: with another confirmation text the button is disabled
DeleteMismatch(del_user, confirm) ==
    /\ run = "controls"
    /\ AdminGate
    /\ del_user \in ExistingUsers(transactions)
    /\ DeleteDisabled(confirm, del_user)
    /\ TailRoom(0)
    /\ run' = EndOfRun(is_admin, uploaded)
    /\ UNCHANGED <<session, files, uploaded, engine>>
    /\ message' = IF confirm # "" THEN "Username does not match. Deletion not enabled." ELSE ""
    /\ UNCHANGED other

\* lines 274-304
DeleteAttempt(del_user, confirm) ==
    DeleteWallet(del_user, confirm) \/ DeleteMismatch(del_user, confirm)

\* lines 314-321: one NAV input edited
EditNAV(d, v) ==
    /\ run = "controls"
    /\ AdminGate
    /\ v # Get(nav, d, Zero)
    /\ TailRoom(0)
    /\ nav' = Put(nav, d, v)
    /\ run' = EndOfRun(is_admin, uploaded)
    /\ UNCHANGED <<transactions, is_admin, withdraw_fee, profit_fee, files, uploaded, engine, message>>
    /\ UNCHANGED other

\* lines 323-327
SaveNAV ==
    /\ run = "controls"
    /\ AdminGate
    /\ TailRoom(1)
    /\ nav_file' = SaveCsv(nav)
    /\ audit_file' = AppendAudit(audit_file, "SaveNAV", "NAVs saved.", ADMIN_USER)
    /\ run' = EndOfRun(is_admin, uploaded)
    /\ UNCHANGED <<session, tx_file, uploaded, engine>>
    /\ message' = "Fund NAVs saved!"
    /\ UNCHANGED other

\* line 365: a file is put into the uploader
Upload(f) ==
    /\ run = "controls"
    /\ AdminGate
    /\ AuditRoom(1)
    /\ uploaded' = {f}
    /\ run' = "restore"
    /\ UNCHANGED <<session, files, engine, message>>
    /\ UNCHANGED other

\* line 365: the file is taken out of the uploader
RemoveUpload ==
    /\ run = "controls"
    /\ AdminGate
    /\ uploaded # {}
    /\ uploaded' = {}
    /\ run' = "idle"
    /\ UNCHANGED <<session, files, engine, message>>
    /\ UNCHANGED other

\* lines 366-370: the end of every run that finds a file in the uploader
RestoreUpload ==
    /\ run = "restore"
    /\ \E f \in uploaded :
          /\ transactions' = f
          /\ tx_file' = SaveCsv(f)
    /\ audit_file' = AppendAudit(audit_file, "RestoreTx", "Transactions restored from upload.", ADMIN_USER)
    /\ run' = "idle"
    /\ UNCHANGED <<nav, is_admin, withdraw_fee, profit_fee, nav_file, uploaded, engine>>
    /\ message' = "Transactions restored! Reload the app."
    /\ UNCHANGED other

Next ==
    \/ Recalculate
    \/ View
    \/ \E user \in LoginNames, pw \in LoginPasswords : LoginSubmit(user, pw)
    \/ AdminLogout
    \/ \E v \in WithdrawFeeInputs : SetWithdrawFee(v)
    \/ \E v \in ProfitFeeInputs : SetProfitFee(v)
    \/ \E user \in UserTexts, ttype \in TxTypes, amt \in FormAmounts, tx_date \in Dates :
          AddTxSubmit(user, ttype, amt, tx_date)
    \/ \E del_user \in Users, confirm \in UserTexts : DeleteAttempt(del_user, confirm)
    \/ \E d \in Dates, v \in NavVals : EditNAV(d, v)
    \/ SaveNAV
    \/ \E f \in UploadFiles : Upload(f)
    \/ RemoveUpload
    \/ RestoreUpload

Spec == Init /\ [][Next]_vars

\* variant: the wallet table with a row for every key of user_value
WalletUsersAll(uvalue) == DOMAIN uvalue

\* lines 155-163: the users of the wallet table ("for u in user_value if u")
WalletUsers(uvalue) == {u \in DOMAIN uvalue : u # ""}

\* ------------------------------------------------------------------------
\* Two browser sessions on one data directory (specification TwoSessionSpec):
\* the session of Spec, restricted to login and add_tx, and a second session
\* whose script runs are taken as single steps.  The sessions share the
\* files and nothing else.
\* ------------------------------------------------------------------------
\* what the transactions file holds when the first session starts
StartFiles == {<<>>, <<Tx(1, "alice", "Deposit", R(1))>>}

\* the wallets the two admins type into the add_tx form
TwoUsers == {"alice", "bob"}

\* lines 51-61 for the first session, on a data directory with a transactions file
TwoInit ==
    /\ tx_file \in StartFiles
    /\ transactions = LoadCsv(tx_file)
    /\ nav = EmptyDict
    /\ is_admin = FALSE
    /\ withdraw_fee = DEFAULT_WITHDRAW_FEE
    /\ profit_fee = DEFAULT_PROFIT_FEE
    /\ nav_file = EmptyDict
    /\ audit_file = <<>>
    /\ uploaded = {}
    /\ run = "idle"
    /\ message = ""
    /\ other = NoSession
    /\ pc = "done"
    /\ d_i = 0
    /\ row_i = 0
    /\ total_shares = Zero
    /\ user_share_balances = EmptyDict
    /\ share_ledger = <<>>
    /\ nav_per_share = EmptyDict
    /\ nav_per_share_today = One
    /\ user_shares = EmptyDict
    /\ user_value = EmptyDict
    /\ after_fees = EmptyDict
    /\ profit = EmptyDict
    /\ fee_details = EmptyDict

\* variant: the transactions file read again by every run
SessionStoreReload(sess, file) == LoadCsv(file)

\* lines 51-52: the store a run of the second session works on
SessionStore(sess, file) == IF sess.started THEN sess.transactions ELSE LoadCsv(file)

\* what the first session leaves alone in a step of the second
FirstSession == <<session, nav_file, widgets, engine>>

\* lines 51-61 and 150-153: the first run of the second session
OtherStart ==
    /\ ~other.started
    /\ other' = [started |-> TRUE,
                 transactions |-> CoerceAmounts(SessionStore(other, tx_file)),
                 is_admin |-> FALSE]
    /\ UNCHANGED <<FirstSession, files>>

\* lines 70-75: the second session logs in
OtherLogin ==
    /\ other.started
    /\ ~other.is_admin
    /\ other' = [other EXCEPT !.is_admin = TRUE]
    /\ audit_file' = AppendAudit(audit_file, "AdminLogin", "Logged in", ADMIN_USER)
    /\ UNCHANGED <<FirstSession, tx_file, nav_file>>

\* lines 255-261 and the run st.rerun() starts: add_tx in the second session
OtherAddTx(user, ttype, amt, tx_date) ==
    /\ other.started
    /\ other.is_admin
    /\ UserGiven(user)
    /\ Len(SessionStore(other, tx_file)) < MaxTx
    /\ LET added == Append(SessionStore(other, tx_file), Tx(tx_date, Strip(user), ttype, amt))
       IN /\ tx_file' = SaveCsv(added)
          /\ other' = [other EXCEPT !.transactions = CoerceAmounts(added)]
    /\ audit_file' = AppendAudit(audit_file, "AddTx", <<ttype, amt, user, tx_date>>, ADMIN_USER)
    /\ UNCHANGED <<FirstSession, nav_file>>

TwoNext ==
    \/ Recalculate
    \/ LoginOk(ADMIN_USER, ADMIN_PASS)
    \/ \E user \in TwoUsers, ttype \in TxTypes, tx_date \in Dates :
          AddTx(user, ttype, R(1), tx_date)
    \/ OtherStart
    \/ OtherLogin
    \/ \E user \in TwoUsers, ttype \in TxTypes, tx_date \in Dates :
          OtherAddTx(user, ttype, R(1), tx_date)

TwoSessionSpec == TwoInit /\ [][TwoNext]_vars

\* ------------------------------------------------------------------------
\* Properties of recalculate_fund (specification EngineSpec)
\* ------------------------------------------------------------------------
\* the row the loop has just executed, in the states inside a day
LastRow == transactions[row_i]

LastEntry == share_ledger[Len(share_ledger)]

\* shares outstanding before the first row of date d, summed from the ledger
RECURSIVE SharesBefore(_, _, _)
SharesBefore(ledger, d, k) ==
    IF k > Len(ledger) THEN Zero
    ELSE LET rest == SharesBefore(ledger, d, k + 1)
         IN IF ledger[k].Date >= d THEN rest
            ELSE IF ledger[k].Type = "Deposit" THEN Add(ledger[k].Shares, rest)
            ELSE Sub(rest, ledger[k].Shares)

\* C1: at every point of the simulation (after each row and after each date)
\* the share balances of all users sum to total_shares.
C1_ShareConservation ==
    /\ ~IsNaN(total_shares)
    /\ SumValues(user_share_balances) = total_shares

\* C1 witness: a withdrawal has just been executed and two users hold shares
C1_Witness ==
    /\ pc = "rows"
    /\ row_i > 0
    /\ LastRow.Type = "Withdrawal"
    /\ Gt(LastEntry.Shares, Zero)
    /\ Cardinality({u \in DOMAIN user_share_balances : Gt(user_share_balances[u], Zero)}) = 2

NextIdx == IF pc = "rows" THEN NextRow(transactions, all_dates[d_i], row_i) ELSE 0

\* C3: a Withdrawal of amount a at a price p > 0 from a balance b < a/p removes
\* exactly b shares from the balance (leaving 0) and from total_shares, and
\* appends the ledger entry with Shares = b and Amount = -(b*p); the loop goes on.
C3_OverWithdrawalClamp ==
    [][ (/\ NextIdx # 0
         /\ transactions[NextIdx].Type = "Withdrawal"
         /\ Gt(nav_per_share_today, Zero)
         /\ Lt(Get(user_share_balances, transactions[NextIdx].User, Zero),
               Div(transactions[NextIdx].Amount, nav_per_share_today)))
        => LET row == transactions[NextIdx]
               b   == Get(user_share_balances, row.User, Zero)
           IN /\ pc' = "rows"
              /\ row_i' = NextIdx
              /\ user_share_balances'[row.User] = Zero
              /\ total_shares' = Sub(total_shares, b)
              /\ share_ledger' = Append(share_ledger,
                    [Date |-> row.Date, User |-> row.User, Type |-> "Withdrawal",
                     Amount |-> Neg(Mul(b, nav_per_share_today)), Shares |-> b,
                     NAVShare |-> nav_per_share_today]) ]_vars

\* C3 witness: a request of 2 at price 3/2 against 1 share was cut to 1 share, paid 3/2
C3_Witness ==
    /\ pc = "rows"
    /\ row_i > 0
    /\ LastRow = Tx(2, LastRow.User, "Withdrawal", R(2))
    /\ LastEntry.NAVShare = Norm(3, 2)
    /\ LastEntry.Shares = One
    /\ LastEntry.Amount = Norm(-3, 2)
    /\ user_share_balances[LastRow.User] = Zero

\* what user u paid in and what the ledger records as paid out to u
RECURSIVE LedgerWithdrawn(_, _, _)
LedgerWithdrawn(ledger, u, k) ==
    IF k > Len(ledger) THEN Zero
    ELSE LET rest == LedgerWithdrawn(ledger, u, k + 1)
         IN IF ledger[k].Type = "Withdrawal" /\ ledger[k].User = u
            THEN Add(Neg(ledger[k].Amount), rest) ELSE rest

\* C4: the returned profit of every user is user_value - (sum of the user's
\* Deposit amounts) + (sum of the absolute Withdrawal amounts of the ledger).
C4_ProfitFormula ==
    pc = "done" =>
        \A u \in DOMAIN profit :
            profit[u] = Add(Sub(user_value[u], SumAmounts(transactions, "Deposit", u, 1)),
                            LedgerWithdrawn(share_ledger, u, 1))

\* C6: every ledger entry of a date d carries the price nav[d] / (total_shares
\* before the first row of d), 1.0 when that total is 0; entries of one date
\* carry one price.
C6_SingleIntraDayPrice ==
    /\ \A i \in DOMAIN share_ledger :
          LET before == SharesBefore(share_ledger, share_ledger[i].Date, 1)
          IN share_ledger[i].NAVShare =
                IF Gt(before, Zero) THEN Div(NavAt(nav, share_ledger[i].Date), before) ELSE One
    /\ \A i, j \in DOMAIN share_ledger :
          share_ledger[i].Date = share_ledger[j].Date
             => share_ledger[i].NAVShare = share_ledger[j].NAVShare

\* C6 witness: two rows of the second day executed at the price 3
C6_Witness ==
    /\ Len(share_ledger) = 3
    /\ share_ledger[2].Date = 2
    /\ share_ledger[3].Date = 2
    /\ share_ledger[2].NAVShare = R(3)
    /\ share_ledger[3].NAVShare = R(3)
    /\ share_ledger[2].Type = "Deposit"

\* C7: on a date that starts with total_shares = 0 a Deposit of amount a
\* credits exactly a shares to the depositor, at price 1.0, whatever the NAV.
C7_BootstrapPrice ==
    [][ (/\ NextIdx # 0
         /\ transactions[NextIdx].Type = "Deposit"
         /\ SharesBefore(share_ledger, transactions[NextIdx].Date, 1) = Zero)
        => LET row == transactions[NextIdx]
           IN /\ user_share_balances'[row.User] =
                    Add(Get(user_share_balances, row.User, Zero), row.Amount)
              /\ total_shares' = Add(total_shares, row.Amount)
              /\ share_ledger'[Len(share_ledger')].Shares = row.Amount
              /\ share_ledger'[Len(share_ledger')].NAVShare = One ]_vars

\* C7 witness: the second day started with no shares left and a NAV of 3, and
\* its deposit was credited one share per unit
C7_Witness ==
    /\ pc = "rows"
    /\ row_i > 0
    /\ Len(share_ledger) = 3
    /\ LastRow.Type = "Deposit"
    /\ LastRow.Date = 2
    /\ NavAt(nav, 2) = R(3)
    /\ SharesBefore(share_ledger, 2, 1) = Zero
    /\ LastEntry.Shares = LastRow.Amount
    /\ total_shares = LastRow.Amount

\* C8: the profit fee is max(profit, 0) * profit_fee: never negative, 0 for a
\* profit <= 0; after_fees = user_value - withdrawal fee - profit fee does not
\* exceed a user_value >= 0.
C8_FeeNonNegativity ==
    pc = "done" =>
        \A u \in DOMAIN fee_details :
            /\ ~Lt(fee_details[u].profit_fee, Zero)
            /\ Le(profit[u], Zero) => fee_details[u].profit_fee = Zero
            /\ Gt(profit[u], Zero) => fee_details[u].profit_fee = Mul(profit[u], profit_fee)
            /\ after_fees[u] = Sub(Sub(user_value[u], fee_details[u].withdrawal_fee),
                                   fee_details[u].profit_fee)
            /\ Ge(user_value[u], Zero) => Le(after_fees[u], user_value[u])

\* C8 witness: one user returned with a loss and no profit fee, another with a
\* profit and a profit fee
C8_Witness ==
    /\ pc = "done"
    /\ \E u, v \in DOMAIN fee_details :
          /\ Lt(profit[u], Zero)
          /\ fee_details[u].profit_fee = Zero
          /\ Gt(profit[v], Zero)
          /\ Gt(fee_details[v].profit_fee, Zero)
          /\ Lt(after_fees[v], user_value[v])

\* date d has no NAV entry and starts with shares outstanding
MissingNavDay(d) ==
    /\ d \notin DOMAIN nav
    /\ Gt(SharesBefore(share_ledger, d, 1), Zero)

\* the ledger entries of the dates without NAV that started with shares outstanding
MissingNavEntries == {i \in DOMAIN share_ledger : MissingNavDay(share_ledger[i].Date)}

\* the recorded end-of-day price of every such date with transactions is NaN
MissingNavRecorded ==
    \A d \in DOMAIN nav_per_share :
        (d \in TxDates(transactions) /\ MissingNavDay(d)) => IsNaN(nav_per_share[d])

\* C15 as stated: on a date with transactions, no NAV entry and shares
\* outstanding at its start, the execution price, the shares of the day's
\* deposits and withdrawals and the recorded nav_per_share are all NaN.
C15_MissingNavPropagates ==
    /\ \A i \in MissingNavEntries :
          /\ IsNaN(share_ledger[i].NAVShare)
          /\ IsNaN(share_ledger[i].Shares)
    /\ MissingNavRecorded

\* C15 amended: on such a date the execution price and the recorded
\* nav_per_share are NaN, but every deposit and withdrawal of the day moves 0
\* shares (NaN > 0 is false); a Deposit is recorded with its amount, a
\* Withdrawal with the amount NaN.
C15_MissingNavZeroShares ==
    /\ \A i \in MissingNavEntries :
          /\ IsNaN(share_ledger[i].NAVShare)
          /\ share_ledger[i].Shares = Zero
          /\ share_ledger[i].Type = "Deposit" => Gt(share_ledger[i].Amount, Zero)
          /\ share_ledger[i].Type = "Withdrawal" => IsNaN(share_ledger[i].Amount)
    /\ MissingNavRecorded

\* C15 witness: the second day has no NAV; its deposit and its withdrawal are
\* in the ledger at the price NaN, and the call has returned
C15_Witness ==
    /\ pc = "done"
    /\ DOMAIN nav = {1}
    /\ Len(share_ledger) = 3
    /\ share_ledger[2].Date = 2
    /\ share_ledger[2].Type = "Deposit"
    /\ share_ledger[3].Type = "Withdrawal"
    /\ share_ledger[3].User = share_ledger[1].User
    /\ IsNaN(share_ledger[3].NAVShare)
    /\ IsNaN(nav_per_share[2])

\* total_shares after the rows of date d, summed from the ledger
SharesAfter(d) == SharesBefore(share_ledger, d + 1, 1)

\* C16: for every date d with a recorded nav_per_share, nav_per_share[d] times
\* the total_shares after d's transactions is nav[d] when d has a NAV and that
\* total is > 0, and nav_per_share[d] is 1.0 when that total is 0, with or
\* without a NAV for d.
C16_EndOfDayPrice ==
    \A d \in DOMAIN nav_per_share :
        /\ (d \in DOMAIN nav /\ Gt(SharesAfter(d), Zero))
              => Mul(nav_per_share[d], SharesAfter(d)) = nav[d]
        /\ SharesAfter(d) = Zero => nav_per_share[d] = One

\* C16 witness: the first day ended with no shares and no NAV at the price
\* 1.0, the second with a NAV of 3 over 2 shares at the price 3/2
C16_Witness ==
    /\ pc = "done"
    /\ DOMAIN nav = {2}
    /\ nav[2] = R(3)
    /\ Len(share_ledger) = 3
    /\ share_ledger[2].Date = 1
    /\ Gt(share_ledger[2].Shares, Zero)
    /\ SharesAfter(1) = Zero
    /\ nav_per_share[1] = One
    /\ SharesAfter(2) = R(2)
    /\ nav_per_share[2] = Norm(3, 2)

\* the Deposit entries of the ledger carry a positive Amount
DepositsPositive ==
    \A i \in DOMAIN share_ledger :
        share_ledger[i].Type = "Deposit" => Gt(share_ledger[i].Amount, Zero)

\* C18 as stated: every Withdrawal entry of the ledger has a negative Amount
\* and every Deposit entry a positive one, withdrawals from a balance of 0
\* included.
C18_OutflowSign ==
    /\ DepositsPositive
    /\ \A i \in DOMAIN share_ledger :
          share_ledger[i].Type = "Withdrawal" => Lt(share_ledger[i].Amount, Zero)

\* C18 amended: every Deposit entry has a positive Amount; the Amount of a
\* Withdrawal entry is never positive: it is negative exactly when shares were
\* removed at a price > 0, NaN exactly when the price is NaN, and 0 otherwise
\* (a balance of 0 or a price of 0).
C18_OutflowNeverPositive ==
    /\ DepositsPositive
    /\ \A i \in DOMAIN share_ledger :
          share_ledger[i].Type = "Withdrawal" =>
              /\ ~Gt(share_ledger[i].Amount, Zero)
              /\ Lt(share_ledger[i].Amount, Zero)
                    <=> (Gt(share_ledger[i].Shares, Zero) /\ Gt(share_ledger[i].NAVShare, Zero))
              /\ IsNaN(share_ledger[i].Amount) <=> IsNaN(share_ledger[i].NAVShare)
              /\ (~Lt(share_ledger[i].Amount, Zero) /\ ~IsNaN(share_ledger[i].Amount))
                    => share_ledger[i].Amount = Zero

\* C18 witness: a withdrawal by a user with no shares recorded with the amount
\* 0, before a deposit and a paid withdrawal of the same user
C18_Witness ==
    /\ Len(share_ledger) = 3
    /\ share_ledger[1].Type = "Withdrawal"
    /\ share_ledger[1].Shares = Zero
    /\ share_ledger[1].Amount = Zero
    /\ share_ledger[2].Type = "Deposit"
    /\ share_ledger[2].User = share_ledger[1].User
    /\ share_ledger[3].Type = "Withdrawal"
    /\ share_ledger[3].User = share_ledger[1].User
    /\ Lt(share_ledger[3].Amount, Zero)

\* ------------------------------------------------------------------------
\* Properties of the session (specification Spec)
\* ------------------------------------------------------------------------
\* the last row of the audit log is the DeleteWallet row of a run that has
\* called st.rerun(): the returned values are still those from before the deletion
AfterDelete ==
    /\ run = "rerun"
    /\ audit_file # <<>>
    /\ audit_file[Len(audit_file)].Action = "DeleteWallet"

Deleted == audit_file[Len(audit_file)].Details[1]

EntriesOf(ledger, u) == SelectSeq(ledger, LAMBDA en : en.User = u)

EntriesNotOf(ledger, u) == SelectSeq(ledger, LAMBDA en : en.User # u)

\* no ledger entry of user u is dated before d
NotAfterFirstOf(ledger, u, d) ==
    \A i \in DOMAIN ledger : ledger[i].User = u => d <= ledger[i].Date

\* the delete handler removes exactly the rows of the selected user, in place
DeleteRemovesExactly ==
    \A b \in Users :
        DeleteWallet(b, b) =>
            /\ transactions' = SelectSeq(transactions, LAMBDA row : row.User # b)
            /\ tx_file' = transactions'

\* C5 as stated: the delete handler removes exactly the rows of b, keeping the
\* order of the others, and the recomputation that follows leaves the ledger
\* entries, the share balance and the wallet value of every other user as
\* they were before the deletion.
C5_DeletionFrame ==
    [][ /\ DeleteRemovesExactly
        /\ AfterDelete =>
              \A u \in Users \ {Deleted} :
                  /\ EntriesOf(share_ledger', u) = EntriesOf(share_ledger, u)
                  /\ Get(user_shares', u, Zero) = Get(user_shares, u, Zero)
                  /\ Get(user_value', u, Zero) = Get(user_value, u, Zero) ]_vars

\* C5 amended: the delete handler removes exactly the rows of b, keeping the
\* order of the others; after the recomputation the other users have the same
\* ledger entries in the same order as to Date, User and Type, and those dated
\* no later than b's first ledger entry are unchanged in Shares, Amount and
\* NAV/Share as well.
C5_DeletionFrameUpToFirstEntry ==
    [][ /\ DeleteRemovesExactly
        /\ AfterDelete =>
              LET old == EntriesNotOf(share_ledger, Deleted)
                  new == share_ledger'
              IN /\ Len(new) = Len(old)
                 /\ \A i \in DOMAIN old :
                       /\ new[i].Date = old[i].Date
                       /\ new[i].User = old[i].User
                       /\ new[i].Type = old[i].Type
                       /\ NotAfterFirstOf(share_ledger, Deleted, old[i].Date) => new[i] = old[i] ]_vars

\* C5 witness: bob's wallet was deleted and the fund recomputed; alice's
\* deposit of the second day, once priced against bob's share, now buys at 3
C5_Witness ==
    /\ run = "idle"
    /\ audit_file # <<>>
    /\ audit_file[Len(audit_file)].Action = "DeleteWallet"
    /\ audit_file[Len(audit_file)].Details = <<"bob", 1>>
    /\ TxUsers(transactions) = {"alice"}
    /\ Len(share_ledger) = 2
    /\ share_ledger[1].NAVShare = One
    /\ share_ledger[2].NAVShare = R(3)

\* the session data and the data files
Guarded == <<transactions, nav, withdraw_fee, profit_fee, tx_file, nav_file>>

\* is_admin is raised only by the login submit with both admin credentials
OnlyLoginRaises == (~is_admin /\ is_admin') => LoginSubmit(ADMIN_USER, ADMIN_PASS)

\* C9 as stated: the transaction store, the NAV map, the fees and the three
\* files change only in steps taken while is_admin is true; is_admin goes from
\* false to true only by a login submit with both admin credentials.
C9_AccessGate ==
    [][ /\ (Guarded' # Guarded \/ audit_file' # audit_file) => is_admin
        /\ OnlyLoginRaises ]_vars

\* C9 amended: the transaction store, the NAV map, the fees, the transactions
\* file and the NAV file change only in steps taken while is_admin is true;
\* the audit file changes only in such steps and in the login step that
\* raises is_admin, which appends the AdminLogin row; is_admin goes from false
\* to true only by a login submit with both admin credentials.
C9_AccessGateButLoginRow ==
    [][ /\ Guarded' # Guarded => is_admin
        /\ audit_file' # audit_file =>
              \/ is_admin
              \/ /\ is_admin'
                 /\ audit_file' = AppendAudit(audit_file, "AdminLogin", "Logged in", ADMIN_USER)
        /\ OnlyLoginRaises ]_vars

\* C9 witness: an admin session that has written the store, the NAV map, a
\* fee and both data files
C9_Witness ==
    /\ is_admin
    /\ audit_file # <<>>
    /\ audit_file[1].Action = "AdminLogin"
    /\ transactions # <<>>
    /\ tx_file = transactions
    /\ nav # EmptyDict
    /\ nav_file = nav
    /\ withdraw_fee # DEFAULT_WITHDRAW_FEE

C11_PersistBeforeRecompute ==
    [][ Recalculate => (transactions = tx_file /\ nav = nav_file) ]_vars

\* the step appends exactly one row, with the given action name, to the audit log
AppendsOne(action) ==
    /\ Len(audit_file') = Len(audit_file) + 1
    /\ SubSeq(audit_file', 1, Len(audit_file)) = audit_file
    /\ audit_file'[Len(audit_file')].Action = action

ReturnedNow ==
    [nav_per_share |-> nav_per_share, user_shares |-> user_shares, user_value |-> user_value,
     after_fees |-> after_fees, profit |-> profit, ledger_df |-> share_ledger,
     fee_details |-> fee_details]

NoRestoreYet == \A i \in DOMAIN audit_file : audit_file[i].Action # "RestoreTx"

\* C17: from an empty store, after add_tx and delete wallet actions only, every
\* stored transaction has a non-empty User, a Type of Deposit or Withdrawal
\* and an Amount > 0, whatever text was typed into the User field.
C17_WellFormedStore ==
    NoRestoreYet =>
        \A i \in DOMAIN transactions :
            /\ transactions[i].User # ""
            /\ transactions[i].Type \in TxTypes
            /\ Gt(transactions[i].Amount, Zero)

\* the last date of all_dates in the call that has returned
LastDate == CHOOSE d \in DOMAIN nav_per_share : \A x \in DOMAIN nav_per_share : x <= d

\* the call has returned with a NAV for the last date and shares outstanding
ValuedAtNav ==
    /\ DOMAIN nav_per_share # {}
    /\ LastDate \in DOMAIN nav
    /\ Gt(total_shares, Zero)

\* the "Wallet (Divines)" column of the wallet table, summed
DisplayedSum == SumOver(user_value, WalletUsers(user_value))

\* the values of all users sum to the NAV of the last date
FullyAttributed == ValuedAtNav => SumValues(user_value) = nav[LastDate]

\* as stated: the wallet table sums to the NAV only if "" holds no shares
DisplayedOnlyIfNoShares ==
    (ValuedAtNav /\ DisplayedSum = nav[LastDate]) => Get(user_shares, "", Zero) = Zero

\* the wallet table sums to the NAV exactly if "" holds no shares or the NAV is 0
DisplayedIffNoSharesOrZeroNav ==
    ValuedAtNav =>
        (DisplayedSum = nav[LastDate]
            <=> (Get(user_shares, "", Zero) = Zero \/ nav[LastDate] = Zero))

\* C19 as stated: when the last date has a NAV and total_shares > 0, the
\* user_value of all users, "" included, sums to that NAV, and the wallet
\* table, which drops "", sums to the NAV only if "" holds 0 shares.
C19_FundFullyAttributed ==
    [][ Recalculate => (FullyAttributed' /\ DisplayedOnlyIfNoShares') ]_vars

\* C19 amended: when the last date has a NAV and total_shares > 0, the
\* user_value of all users, "" included, sums to that NAV, and the wallet
\* table, which drops "", sums to the NAV exactly if "" holds 0 shares or the
\* NAV is 0.
C19_FundAttributedUnlessZeroNav ==
    [][ Recalculate => (FullyAttributed' /\ DisplayedIffNoSharesOrZeroNav') ]_vars

\* C19 witness: "" and alice hold a share each of a fund worth 3; the wallet
\* table shows alice's 3/2 only
C19_Witness ==
    /\ run = "controls"
    /\ ValuedAtNav
    /\ nav[LastDate] = R(3)
    /\ Gt(Get(user_shares, "", Zero), Zero)
    /\ Gt(Get(user_shares, "alice", Zero), Zero)
    /\ SumValues(user_value) = R(3)
    /\ DisplayedSum = Norm(3, 2)

\* ------------------------------------------------------------------------
\* Properties of two sessions (specification TwoSessionSpec)
\* ------------------------------------------------------------------------
\* how many rows of tr equal row
Occurrences(tr, row) == Cardinality({i \in DOMAIN tr : tr[i] = row})

\* the first session has added a row to the store both sessions loaded, and saved it
FirstIsAhead ==
    /\ other.started
    /\ other.is_admin
    /\ transactions # <<>>
    /\ tx_file = SaveCsv(transactions)
    /\ other.transactions = SubSeq(transactions, 1, Len(transactions) - 1)

\* C14: two admin sessions have loaded the same transactions file; the first
\* adds a row and saves, then the second adds a different row and saves: the
\* file then holds the second session's copy only, as long as before the
\* second save, and the first session's row is not in it.
C14_LostUpdate ==
    [][ \A user \in TwoUsers, ttype \in TxTypes, tx_date \in Dates :
           LET tx_a == transactions[Len(transactions)]
               tx_b == Tx(tx_date, user, ttype, R(1))
           IN (FirstIsAhead /\ tx_b # tx_a /\ OtherAddTx(user, ttype, R(1), tx_date))
              => /\ tx_file' = SaveCsv(Append(other.transactions, tx_b))
                 /\ Len(tx_file') = Len(tx_file)
                 /\ Occurrences(tx_file', tx_a) = Occurrences(other.transactions, tx_a)
                 /\ Occurrences(tx_file', tx_a) < Occurrences(transactions, tx_a) ]_vars

\* C14 witness: both admins have added one row to the store they loaded; the
\* file is the second session's store and lacks the row the first one added
C14_Witness ==
    /\ is_admin
    /\ other.is_admin
    /\ Len(audit_file) = 4
    /\ audit_file[3].Action = "AddTx"
    /\ audit_file[4].Action = "AddTx"
    /\ tx_file = SaveCsv(other.transactions)
    /\ Len(transactions) = Len(tx_file)
    /\ Len(tx_file) = 2
    /\ transactions[1] = tx_file[1]
    /\ transactions[2] # tx_file[2]
    /\ Occurrences(tx_file, transactions[2]) = 0


====
